---- MODULE Spec2Model ----
(***************************************************************************)
(* Model of scripts/ai-code-quality-agent.py: the CodeQualityAgent class   *)
(* and main().  Text is a sequence of one-character strings, so that the   *)
(* substring tests, counts, splits and slices of the code are computed and *)
(* not assumed.  External processes and HTTP services answer               *)
(* nondeterministically from small sets.                                   *)
(***************************************************************************)
EXTENDS Integers, Sequences, FiniteSets, TLC

(***************************************************************************)
(* Text primitives (Python str operations used by the agent).              *)
(***************************************************************************)

\* sub in s
Contains(sub, s) ==
    \E i \in 1..(Len(s) - Len(sub) + 1) : SubSeq(s, i, i + Len(sub) - 1) = sub

\* s.count(sub): non-overlapping occurrences, scanned left to right
RECURSIVE CountFrom(_, _, _)
CountFrom(sub, s, i) ==
    IF i + Len(sub) - 1 > Len(s) THEN 0
    ELSE IF SubSeq(s, i, i + Len(sub) - 1) = sub
         THEN 1 + CountFrom(sub, s, i + Len(sub))
         ELSE CountFrom(sub, s, i + 1)

Count(sub, s) == CountFrom(sub, s, 1)

UpperChars == <<"A", "E", "H", "I", "L", "M", "N", "S", "T", "Y", "Z">>
LowerChars == <<"a", "e", "h", "i", "l", "m", "n", "s", "t", "y", "z">>

LowerChar(c) ==
    IF \E k \in DOMAIN UpperChars : UpperChars[k] = c
    THEN LowerChars[CHOOSE k \in DOMAIN UpperChars : UpperChars[k] = c]
    ELSE c

\* s.lower()
Lower(s) == [i \in 1..Len(s) |-> LowerChar(s[i])]

\* s.endswith(suffix)
EndsWith(suffix, s) ==
    /\ Len(suffix) <= Len(s)
    /\ SubSeq(s, Len(s) - Len(suffix) + 1, Len(s)) = suffix

RECURSIVE Concat(_)
Concat(ss) == IF ss = <<>> THEN <<>> ELSE Head(ss) \o Concat(Tail(ss))

\* the sequence x repeated n times
RECURSIVE Repeat(_, _)
Repeat(x, n) == IF n = 0 THEN <<>> ELSE x \o Repeat(x, n - 1)

\* sequences over S of length at most n
SeqUpTo(S, n) == UNION {[1..k -> S] : k \in 0..n}

\* seq[:n]
Take(seq, n) == SubSeq(seq, 1, IF Len(seq) < n THEN Len(seq) ELSE n)

(***************************************************************************)
(* JSON values as the agent sees them after json.loads: a string, or a     *)
(* value of another type (a list is unhashable, a number has no .title()), *)
(* or an absent key.                                                       *)
(***************************************************************************)
JStr(s) == [t |-> "str", v |-> s]
JNum    == [t |-> "num", v |-> "3"]
JList   == [t |-> "list", v |-> "high"]
JAbsent == [t |-> "absent", v |-> ""]

\* d.get(key, default) for a key that may be absent
GetOr(val, default) == IF val = JAbsent THEN JStr(default) ELSE val

(***************************************************************************)
(* Static heuristic scanner: analyze_file, lines 239-266.                  *)
(* A file content is its text followed by `pad` filler characters that     *)
(* take part in no pattern (run-length form of a large file).              *)
(***************************************************************************)
EvalCall   == <<"e", "v", "a", "l", "(">>
InnerHTML  == <<"i", "n", "n", "e", "r", "H", "T", "M", "L">>
SanitizeLc == <<"s", "a", "n", "i", "t", "i", "z", "e">>
AnyWord    == <<"a", "n", "y">>

AnyThreshold == 5

ContentLen(content) == Len(content.text) + content.pad

EvalIssue(file_path) ==
    [type |-> JStr("security"), severity |-> JStr("high"),
     description |-> "Use of eval() detected - potential security risk",
     file |-> file_path]

InnerHtmlIssue(file_path) ==
    [type |-> JStr("security"), severity |-> JStr("medium"),
     description |-> "innerHTML usage without sanitization",
     file |-> file_path]

AnyIssue(file_path) ==
    [type |-> JStr("quality"), severity |-> JStr("medium"),
     description |-> "Excessive use of any type - consider proper typing",
     file |-> file_path]

\* mutant: the rules chained as if/elif, so the first match ends the scan
StaticIssuesEarlyExit(content, file_path) ==
    IF Contains(EvalCall, content.text) THEN <<EvalIssue(file_path)>>
    ELSE IF Contains(InnerHTML, content.text)
            /\ ~Contains(SanitizeLc, Lower(content.text))
         THEN <<InnerHtmlIssue(file_path)>>
    ELSE IF Count(AnyWord, content.text) > AnyThreshold
         THEN <<AnyIssue(file_path)>>
    ELSE <<>>

StaticIssues(content, file_path) ==
    LET i1 == IF Contains(EvalCall, content.text)
              THEN <<EvalIssue(file_path)>> ELSE <<>>
        i2 == IF Contains(InnerHTML, content.text)
                 /\ ~Contains(SanitizeLc, Lower(content.text))
              THEN Append(i1, InnerHtmlIssue(file_path)) ELSE i1
        i3 == IF Count(AnyWord, content.text) > AnyThreshold
              THEN Append(i2, AnyIssue(file_path)) ELSE i2
    IN  i3

(***************************************************************************)
(* Remote review client: analyze_code_with_ai, lines 85-166.               *)
(*                                                                         *)
(* A response of the review service is a record: raised = TRUE when        *)
(* requests.post raised a RequestException (timeout, connection error);    *)
(* otherwise status is the HTTP status, envelope says whether the body is  *)
(* JSON with choices[0].message.content, and content is that text.         *)
(* The message content is a character sequence in which one letter stands  *)
(* for the members of a JSON object (PayloadOf).                           *)
(***************************************************************************)
models_to_try == <<"gpt-3.5-turbo", "gpt-4o-mini", "gpt-4", "codex-mini-latest">>

Truthy(v) == v \notin {"None", ""}

\* a or b
OrElse(a, b) == IF Truthy(a) THEN a ELSE b

JItems(items) == [t |-> "list", items |-> items]
JNotList      == [t |-> "num", items |-> <<>>]
JNoKey        == [t |-> "absent", items |-> <<>>]

AiIssue(type, severity) ==
    [t |-> "dict", type |-> type, severity |-> severity, description |-> "d"]
NonDictItem == [t |-> "str", type |-> JAbsent, severity |-> JAbsent, description |-> ""]

NoneResult == [t |-> "none", empty |-> TRUE, issues |-> JNoKey, suggestions |-> JNoKey]

Dict(issues, suggestions) ==
    [t |-> "dict", empty |-> FALSE, issues |-> issues, suggestions |-> suggestions]

EmptyDict == [t |-> "dict", empty |-> TRUE, issues |-> JNoKey, suggestions |-> JNoKey]

\* the JSON object members a payload letter stands for
PayloadCodes == {"a", "m", "h", "x", "n", "u", "l", "y", "c"}

PayloadOf(c) ==
    CASE c = "a" -> Dict(JItems(<<>>), JItems(<< <<"s">> >>))
      [] c = "m" -> Dict(JItems(<<AiIssue(JStr("quality"), JStr("medium"))>>),
                         JItems(<< <<"s">> >>))
      [] c = "h" -> Dict(JItems(<<AiIssue(JStr("security"), JStr("high"))>>), JNoKey)
      [] c = "x" -> Dict(JItems(<<NonDictItem>>), JItems(<< <<"s">> >>))
      [] c = "n" -> Dict(JNotList, JItems(<< <<"s">> >>))
      [] c = "u" -> Dict(JItems(<<AiIssue(JStr("quality"), JStr("medium"))>>), JNotList)
      [] c = "l" -> Dict(JItems(<<AiIssue(JStr("security"), JList)>>), JNoKey)
      [] c = "y" -> Dict(JItems(<<AiIssue(JNum, JStr("low"))>>), JNoKey)
      [] c = "c" -> Dict(JItems(<<AiIssue(JStr("security"), JStr("HIGH"))>>), JNoKey)

\* content.find(ch) + 1 and content.rfind(ch) + 1 (0 when ch does not occur)
Find(ch, s) ==
    IF \E i \in 1..Len(s) : s[i] = ch
    THEN CHOOSE i \in 1..Len(s) : s[i] = ch /\ \A j \in 1..(i - 1) : s[j] # ch
    ELSE 0

RFind(ch, s) ==
    IF \E i \in 1..Len(s) : s[i] = ch
    THEN CHOOSE i \in 1..Len(s) : s[i] = ch /\ \A j \in (i + 1)..Len(s) : s[j] # ch
    ELSE 0

\* json.loads(text): ok = FALSE stands for json.JSONDecodeError
JsonLoads(text) ==
    IF text = <<"{", "}">> THEN [ok |-> TRUE, value |-> EmptyDict]
    ELSE IF Len(text) = 3 /\ text[1] = "{" /\ text[3] = "}" /\ text[2] \in PayloadCodes
         THEN [ok |-> TRUE, value |-> PayloadOf(text[2])]
         ELSE [ok |-> FALSE, value |-> NoneResult]

\* lines 141-151: the slice from the first '{' to the last '}', or a
\* synthesized response when there is no such slice
ExtractReview(content) ==
    LET start == Find("{", content)
        end   == RFind("}", content)
    IN  IF start # 0 /\ end # 0
        THEN JsonLoads(SubSeq(content, start, end))
        ELSE [ok |-> TRUE, value |-> Dict(JItems(<<>>), JItems(<<content>>))]

NetError == [raised |-> TRUE, status |-> 0, envelope |-> "", content |-> <<>>]
Http(status) == [raised |-> FALSE, status |-> status, envelope |-> "", content |-> <<>>]
Ok200(envelope, content) ==
    [raised |-> FALSE, status |-> 200, envelope |-> envelope, content |-> content]

Continue   == [ctl |-> "continue", exc |-> "", value |-> NoneResult]
Return(v)  == [ctl |-> "return", exc |-> "", value |-> v]
Raise(exc) == [ctl |-> "raise", exc |-> exc, value |-> NoneResult]

\* The body of the inner try (lines 121-157) on the response to one request:
\* it returns, or goes on to the next model, or raises.  response.json() on
\* a body that is not JSON raises requests' JSONDecodeError, which is a
\* RequestException since requests 2.27 and a plain ValueError before; the
\* installed library decides which.
TryBody(resp, json_error_is_request_exception) ==
    IF resp.raised THEN Raise("RequestException")
    ELSE IF resp.status = 200
         THEN IF resp.envelope = "notjson"
              THEN IF json_error_is_request_exception
                   THEN Raise("RequestException")
                   ELSE Raise("ValueError")
              ELSE IF resp.envelope = "nochoices"
                   THEN Raise("KeyError")
                   ELSE LET r == ExtractReview(resp.content)
                        IN  IF r.ok THEN Return(r.value) ELSE Raise("ValueError")
         ELSE IF resp.status = 404
              THEN Continue
              ELSE Continue

\* mutant: no handler around the request of one model; a network failure
\* reaches the outer handler and ends the call
ReviewStepNoInnerCatch(resp, json_error_is_request_exception) ==
    LET b == TryBody(resp, json_error_is_request_exception)
    IN  IF b.ctl = "raise" THEN Return(NoneResult) ELSE b

\* One iteration of `for model in models_to_try` (lines 119-161) with the
\* two handlers: RequestException goes to the next model (lines 159-161),
\* any other exception leaves the loop and the call returns None (163-166).
ReviewStep(resp, json_error_is_request_exception) ==
    LET b == TryBody(resp, json_error_is_request_exception)
    IN  IF b.ctl = "raise"
        THEN IF b.exc = "RequestException" THEN Continue ELSE Return(NoneResult)
        ELSE b

\* The whole loop on a script of responses, one per request in order:
\* the result and the number of requests sent.
RECURSIVE TryModels(_, _, _)
TryModels(script, k, lib) ==
    IF k > Len(models_to_try) \/ k > Len(script)
    THEN [result |-> NoneResult, sent |-> k - 1, src |-> 0]
    ELSE LET s == ReviewStep(script[k], lib)
         IN  IF s.ctl = "return"
             THEN [result |-> s.value, sent |-> k, src |-> k]
             ELSE TryModels(script, k + 1, lib)

(***************************************************************************)
(* Change-set resolver: get_changed_files, lines 168-227.                  *)
(* The outcome of a subprocess.run is a record: raised = TRUE when the     *)
(* launch raised (missing binary), otherwise the exit status and stdout.   *)
(***************************************************************************)
NL == "\n"

\* s.split('\n')
RECURSIVE SplitLines(_)
SplitLines(s) ==
    LET i == Find(NL, s)
    IN  IF i = 0 THEN <<s>>
        ELSE <<SubSeq(s, 1, i - 1)>> \o SplitLines(SubSeq(s, i + 1, Len(s)))

\* s.strip()
RECURSIVE Strip(_)
Strip(s) ==
    IF s = <<>> THEN s
    ELSE IF Head(s) = " " THEN Strip(Tail(s))
    ELSE IF s[Len(s)] = " " THEN Strip(SubSeq(s, 1, Len(s) - 1))
    ELSE s

RECURSIVE StripNonEmpty(_)
StripNonEmpty(ls) ==
    IF ls = <<>> THEN <<>>
    ELSE IF Strip(Head(ls)) # <<>>
         THEN <<Strip(Head(ls))>> \o StripNonEmpty(Tail(ls))
         ELSE StripNonEmpty(Tail(ls))

\* [f.strip() for f in stdout.split('\n') if f.strip()]
ParseNames(stdout) == StripNonEmpty(SplitLines(stdout))

SourceSuffixes ==
    {<<".", "t", "s">>, <<".", "j", "s">>, <<".", "t", "s", "x">>, <<".", "j", "s", "x">>}

\* [f for f in files if f.endswith(('.ts', '.js', '.tsx', '.jsx'))]
RECURSIVE FilterSource(_)
FilterSource(files) ==
    IF files = <<>> THEN <<>>
    ELSE IF \E suf \in SourceSuffixes : EndsWith(suf, Head(files))
         THEN <<Head(files)>> \o FilterSource(Tail(files))
         ELSE FilterSource(Tail(files))

ScanCap     == 10
FallbackCap == 5

Raised == [raised |-> TRUE, returncode |-> 0, stdout |-> <<>>, stderr |-> <<>>]
ExitedErr(returncode, stdout, stderr) ==
    [raised |-> FALSE, returncode |-> returncode, stdout |-> stdout, stderr |-> stderr]
Exited(returncode, stdout) == ExitedErr(returncode, stdout, <<>>)

Failed(outcome) == outcome.raised \/ outcome.returncode # 0

\* a launched command as the history keeps it: its outcome and the number of
\* names on its stdout
Cmd(name, outcome) ==
    [cmd |-> name, raised |-> outcome.raised, returncode |-> outcome.returncode,
     names |-> Len(ParseNames(outcome.stdout))]

\* mutant: the fallback does not look at the exit status of find
FallbackScanAnyStatus(find_fallback) ==
    Take(ParseNames(find_fallback.stdout), FallbackCap)

\* mutant: the scan for manual runs returns every file it found
ScanResultUncapped(find_all) == ParseNames(find_all.stdout)

\* lines 204-206: the scan of a manual run with no changed file
ScanResult(find_all) == Take(ParseNames(find_all.stdout), ScanCap)

\* lines 212-227: fallback scan after a failed diff or an exception
FallbackScan(find_fallback) ==
    IF ~Failed(find_fallback)
    THEN Take(ParseNames(find_fallback.stdout), FallbackCap)
    ELSE <<>>

\* get_changed_files: the list returned and the commands launched, in order.
\* diff is the outcome of the git diff this run launches (against
\* origin/main when pr_number is set, against HEAD~1 otherwise).
GetChangedFiles(pr_number, diff, find_all, find_fallback) ==
    LET ts_js_files == FilterSource(ParseNames(diff.stdout))
        fallback(before) ==
            [files |-> FallbackScan(find_fallback),
             commands |-> Append(before, Cmd("find_fallback", find_fallback))]
    IN  IF diff.raised THEN fallback(<<Cmd("diff", diff)>>)
        ELSE IF diff.returncode = 0
        THEN IF ts_js_files = <<>> /\ ~Truthy(pr_number)
             THEN IF find_all.raised
                  THEN fallback(<<Cmd("diff", diff), Cmd("find_all", find_all)>>)
                  ELSE IF find_all.returncode = 0
                       THEN [files |-> ScanResult(find_all),
                             commands |-> <<Cmd("diff", diff), Cmd("find_all", find_all)>>]
                       ELSE [files |-> ts_js_files,
                             commands |-> <<Cmd("diff", diff), Cmd("find_all", find_all)>>]
             ELSE [files |-> ts_js_files, commands |-> <<Cmd("diff", diff)>>]
        ELSE fallback(<<Cmd("diff", diff)>>)

(***************************************************************************)
(* External tool invoker: run_typescript_check (lines 45-62) and           *)
(* run_security_audit (lines 64-83).                                       *)
(***************************************************************************)
ErrorTS == <<"e", "r", "r", "o", "r", " ", "T", "S">>

RunTypescriptCheck(outcome) ==
    IF outcome.raised
    THEN [success |-> FALSE, error_count |-> 0, stderr |-> <<>>]
    ELSE [success |-> outcome.returncode = 0,
          error_count |-> IF outcome.stderr # <<>> THEN Count(ErrorTS, outcome.stderr) ELSE 0,
          stderr |-> outcome.stderr]

\* vulnerabilities as json.loads returns it: a dict of entries, or a value of
\* another type; an entry is a dict with a severity, or a value of another type
VulnEntry(severity) == [t |-> "dict", severity |-> severity]
BadEntry == [t |-> "str", severity |-> ""]
Vulns(t, entries) == [t |-> t, entries |-> entries]
NoVulns == Vulns("dict", <<>>)

\* the audit report a letter between the braces stands for
AuditCodes == {"v", "w", "s", "e"}

AuditPayload(c) ==
    CASE c = "v" -> Vulns("dict", <<VulnEntry("high"), VulnEntry("low")>>)
      [] c = "w" -> Vulns("list", <<BadEntry>>)
      [] c = "s" -> Vulns("dict", <<BadEntry>>)
      [] c = "e" -> NoVulns

\* json.loads(result.stdout) followed by audit_data.get(...): ok = FALSE when
\* either raises (text that is not JSON, or JSON that is not an object)
AuditLoads(text) ==
    IF text = <<"{", "}">> THEN [ok |-> TRUE, vulnerabilities |-> NoVulns]
    ELSE IF Len(text) = 3 /\ text[1] = "{" /\ text[3] = "}" /\ text[2] \in AuditCodes
         THEN [ok |-> TRUE, vulnerabilities |-> AuditPayload(text[2])]
         ELSE [ok |-> FALSE, vulnerabilities |-> NoVulns]

\* the dict run_security_audit returns: {} and {'error': ...} hold no
\* 'vulnerabilities' key, which generate_report reads as {}
RunSecurityAudit(outcome) ==
    IF outcome.raised THEN [kind |-> "error", vulnerabilities |-> NoVulns]
    ELSE IF outcome.stdout = <<>> THEN [kind |-> "empty", vulnerabilities |-> NoVulns]
    ELSE LET d == AuditLoads(outcome.stdout)
         IN  IF d.ok THEN [kind |-> "data", vulnerabilities |-> d.vulnerabilities]
             ELSE [kind |-> "error", vulnerabilities |-> NoVulns]

(***************************************************************************)
(* analyze_file, lines 229-291: static issues, the optional review, and    *)
(* the merge into analysis_results.                                        *)
(***************************************************************************)
SizeLimit == 5000

WithFile(issue, file_path) ==
    [type |-> issue.type, severity |-> issue.severity,
     description |-> issue.description, file |-> file_path]

\* lines 272-280 raise a TypeError when 'issues' or 'suggestions' is not a
\* list, or when an issue is not a dict ('issue["file"] = ...')
MergeRaises(ai) ==
    \/ ai.issues.t = "num"
    \/ \E i \in DOMAIN ai.issues.items : ai.issues.items[i].t # "dict"
    \/ ai.suggestions.t = "num"

ResultTruthy(ai) == ai.t = "dict" /\ ~ai.empty

\* the new (issues, suggestions) of analysis_results after analyze_file with
\* review result `ai` (NoneResult when the review is skipped or absent)
MergeFile(issues, suggestions, static, ai, file_path) ==
    IF ~ResultTruthy(ai)
    THEN [issues |-> issues \o static, suggestions |-> suggestions]
    ELSE IF MergeRaises(ai)
         THEN [issues |-> issues, suggestions |-> suggestions]
         ELSE [issues |-> issues \o static
                          \o [i \in DOMAIN ai.issues.items |->
                                 WithFile(ai.issues.items[i], file_path)],
               suggestions |-> suggestions
                          \o [i \in DOMAIN ai.suggestions.items |->
                                 file_path \o <<":", " ">> \o ai.suggestions.items[i]]]

\* whether analyze_file calls analyze_code_with_ai (line 269)
CallsReview(key, content) == Truthy(key) /\ ContentLen(content) < SizeLimit

(***************************************************************************)
(* generate_report, lines 309-362: the rendering.  The report is kept as   *)
(* the values its lines print.                                             *)
(***************************************************************************)
DetailCap     == 10
SuggestionCap == 5
AnalyzeCap    == 10

IsHigh(issue) == issue.severity = JStr("high")

CountSeverity(issues, sev) ==
    Cardinality({i \in DOMAIN issues : GetOr(issues[i].severity, "unknown") = JStr(sev)})

\* lines 329-332: .values() of a non-dict and .get() of a non-dict entry raise
AuditRenderRaises(security_audit) ==
    LET v == security_audit.vulnerabilities
    IN  /\ v.entries # <<>>
        /\ \/ v.t # "dict"
           \/ \E i \in DOMAIN v.entries : v.entries[i].t # "dict"

\* lines 338-340 raise on an unhashable severity; line 352 raises on a type
\* without .title() among the first DetailCap issues
IssuesRenderRaise(issues) ==
    \/ \E i \in DOMAIN issues : issues[i].severity.t = "list"
    \/ \E i \in DOMAIN Take(issues, DetailCap) :
          GetOr(issues[i].type, "unknown").t # "str"

RenderRaises(security_audit, issues) ==
    AuditRenderRaises(security_audit) \/ IssuesRenderRaise(issues)

Render(timestamp, ts_check, security_audit, changed_files, issues, suggestions) ==
    [generated |-> timestamp,
     analyzed_files |-> Len(changed_files),
     typescript |-> IF ts_check.success THEN <<"PASSED">>
                    ELSE <<"FAILED", ts_check.error_count, ts_check.stderr>>,
     security |-> LET v == security_audit.vulnerabilities.entries
                  IN  IF v # <<>>
                      THEN <<Len(v), Cardinality({i \in DOMAIN v : v[i].severity = "high"})>>
                      ELSE <<>>,
     tally |-> [sev \in {"high", "medium", "low"} |-> CountSeverity(issues, sev)],
     details |-> Take(issues, DetailCap),
     suggestions |-> Take(suggestions, SuggestionCap)]

(***************************************************************************)
(* post_pr_comment, lines 364-388, and the exit status of main.            *)
(***************************************************************************)
CreatedStatus == 201

\* whether the comment POST is issued
SendsComment(token, pr, repo) == Truthy(token) /\ Truthy(pr) /\ Truthy(repo)

\* mutant: any 2xx response counts as posted
PostPrCommentAnySuccess(token, pr, repo, resp) ==
    IF ~Truthy(token) \/ ~Truthy(pr) THEN FALSE
    ELSE IF ~Truthy(repo) THEN FALSE
    ELSE IF resp.raised THEN FALSE
    ELSE resp.status \in {200, CreatedStatus}

\* the value post_pr_comment returns, given the response when the POST is issued
PostPrComment(token, pr, repo, resp) ==
    IF ~Truthy(token) \/ ~Truthy(pr) THEN FALSE
    ELSE IF ~Truthy(repo) THEN FALSE
    ELSE IF resp.raised THEN FALSE
    ELSE resp.status = CreatedStatus

\* lines 417-422
ExitCode(issues) == IF \E i \in DOMAIN issues : IsHigh(issues[i]) THEN 1 ELSE 0

(***************************************************************************)
(* State.                                                                  *)
(***************************************************************************)
VARIABLES
    pc,                 \* position of main / of the function under test
    openai_env,         \* OPENAI_API_KEY, OPENAI_KEY, OPENAI_TOKEN at start
    openai_api_key,     \* self.openai_api_key
    github_token,       \* self.github_token
    pr_number,          \* self.pr_number
    timestamp,          \* self.analysis_results['timestamp']
    json_error_is_request_exception,  \* the installed requests library
    ts_check,           \* generate_report's ts_check
    security_audit,     \* generate_report's security_audit
    changed_files,      \* generate_report's changed_files
    file_idx,           \* index of the next file of the analysis loop
    issues,             \* self.analysis_results['issues']
    suggestions,        \* self.analysis_results['suggestions']
    analyzed,           \* history: the (path, content) analyze_file has read
    review_requests,    \* history: number of POSTs sent to the review service
    analyze_calls,      \* history: number of calls of analyze_file
    file_requests,      \* history: POSTs sent during the latest analyze_file
    report,             \* main's report: <<>> or <<the report>>
    report_file,        \* ai-code-quality-report.md: <<>> or <<the report>>
    github_repository,  \* GITHUB_REPOSITORY as post_pr_comment read it
    comment_posts,      \* history: number of comment POSTs issued
    comment_response,   \* history: the response to the comment POST
    comment_result,     \* what post_pr_comment returned, "none" before
    exit_code,          \* process exit status, -1 while running
    commands,           \* history: commands get_changed_files launched
    model_idx,          \* analyze_code_with_ai: index of the model tried next
    requested,          \* history: models requested by this call, in order
    responses,          \* history: the responses received by this call
    ai_analysis,        \* value returned by analyze_code_with_ai
    scan_content,       \* analyze_file: content read
    scan_issues,        \* analyze_file: static issues found
    clock,              \* the time datetime.now() reads
    earlier             \* history: <<>> or <<the first rendering and its inputs>>

vars == <<pc, openai_env, openai_api_key, github_token, pr_number, timestamp,
          json_error_is_request_exception, ts_check, security_audit,
          changed_files, file_idx, issues, suggestions, analyzed,
          review_requests, analyze_calls, file_requests, report, report_file,
          github_repository,
          comment_posts, comment_response, comment_result, exit_code, commands, model_idx, requested, responses, ai_analysis,
          scan_content, scan_issues, clock, earlier>>

agentVars  == <<openai_env, openai_api_key, github_token, pr_number, timestamp,
                json_error_is_request_exception>>
reportVars == <<ts_check, security_audit, changed_files, file_idx, issues,
                suggestions, analyzed, review_requests, analyze_calls,
                file_requests>>
mainVars   == <<report, report_file, github_repository, comment_posts,
                comment_response, comment_result, exit_code>>
reviewVars == <<commands, model_idx, requested, responses, ai_analysis>>
scanVars   == <<scan_content, scan_issues>>
renderVars == <<clock, earlier>>

(***************************************************************************)
(* Inputs.                                                                 *)
(***************************************************************************)
MaxFiles == 2

\* __init__, lines 21-25: the key is the first truthy of the three variables
KeyOf(env) == OrElse(env[1], OrElse(env[2], env[3]))

OpenAiEnvs ==
    {<<"None", "None", "None">>, <<"", "None", "None">>, <<"None", "None", "">>,
     <<"None", "sk", "None">>}

Letters == <<"a", "b", "c", "d", "e", "f", "g", "h", "i", "j", "k", "l", "m", "n">>
Exts == <<<<".", "t", "s">>, <<".", "j", "s">>, <<".", "t", "s", "x">>, <<".", "j", "s", "x">>>>

FileName(i) == <<Letters[i]>> \o Exts[((i - 1) % 4) + 1]

\* stdout listing the first n file names, one per line
RECURSIVE Listing(_)
Listing(n) == IF n = 0 THEN <<>> ELSE Listing(n - 1) \o FileName(n) \o <<NL>>

\* the same with a file that is no source file and padded, blank lines
RECURSIVE MixedListing(_)
MixedListing(n) ==
    IF n = 0 THEN <<"R", ".", "m", "d", NL, " ", NL>>
    ELSE MixedListing(n - 1) \o <<" ">> \o FileName(n) \o <<" ", NL>>

ListingOutcomes(max) ==
    {Raised, Exited(1, <<>>), Exited(1, Listing(1))}
    \cup {Exited(0, Listing(n)) : n \in 0..max}

DiffOutcomes(max) ==
    ListingOutcomes(max) \cup {Exited(0, MixedListing(n)) : n \in 0..max}

TsOutcomes ==
    {Raised, Exited(0, <<>>), ExitedErr(2, <<>>, ErrorTS \o <<NL>> \o ErrorTS)}

AuditOutcomes ==
    {Raised, Exited(0, <<>>), Exited(0, <<"o">>), Exited(0, <<"[", "]">>),
     Exited(0, <<"{", "}">>), Exited(1, <<"{", "v", "}">>),
     Exited(1, <<"{", "w", "}">>), Exited(1, <<"{", "s", "}">>),
     Exited(1, <<"{", "e", "}">>)}

\* the audit outcomes the whole run draws from
RunAuditOutcomes ==
    {Raised, Exited(0, <<"o">>), Exited(0, <<"[", "]">>), Exited(0, <<"{", "}">>),
     Exited(1, <<"{", "v", "}">>), Exited(1, <<"{", "w", "}">>),
     Exited(1, <<"{", "s", "}">>)}

File(exists, readable, text, pad) ==
    [exists |-> exists, readable |-> readable, content |-> [text |-> text, pad |-> pad]]

CleanText == <<"x", "=", "1">>

Files ==
    {File(FALSE, FALSE, <<>>, 0), File(TRUE, FALSE, <<>>, 0),
     File(TRUE, TRUE, CleanText, 0), File(TRUE, TRUE, CleanText, SizeLimit),
     File(TRUE, TRUE, EvalCall \o <<"u", ")">>, 0)}

ReviewContents ==
    {<<"t">>, <<"{">>, <<"}", "{">>, <<"{", "}">>, <<"{", "o", "}">>,
     <<"t", "{", "m", "}", "t">>, <<"{", "m", "}", "{", "h", "}">>}
    \cup {<<"{", c, "}">> : c \in PayloadCodes}

Responses ==
    {NetError, Http(404), Http(500), Http(401),
     Ok200("notjson", <<>>), Ok200("nochoices", <<>>)}
    \cup {Ok200("ok", c) : c \in ReviewContents}

\* the exchanges with the review service the whole run draws from, each the
\* responses to the successive requests for one file
RunScripts ==
    {Repeat(<<Http(404)>>, 4), Repeat(<<NetError>>, 4),
     <<Http(404), Http(404), Ok200("ok", <<"{", "m", "}">>)>>,
     <<Ok200("ok", <<"{", "h", "}">>)>>,
     <<Ok200("ok", <<"{", "x", "}">>)>>,
     <<Ok200("ok", <<"{", "l", "}">>)>>,
     <<Http(500), Ok200("ok", <<"{", "y", "}">>)>>,
     <<Ok200("notjson", <<>>), Ok200("ok", <<"{", "u", "}">>)>>}

CommentResponses == {NetError, Http(201), Http(200), Http(403)}

(***************************************************************************)
(* The run of main(), lines 390-422.                                       *)
(***************************************************************************)
NoResponse == Http(0)
NoContent  == [text |-> <<>>, pad |-> 0]

AgentInit ==
    /\ openai_env \in OpenAiEnvs
    /\ openai_api_key = KeyOf(openai_env)
    /\ github_token \in {"None", "ghp"}
    /\ pr_number \in {"None", "7"}

IdleInit ==
    /\ ts_check = RunTypescriptCheck(Raised)
    /\ security_audit = RunSecurityAudit(Raised)
    /\ changed_files = <<>>
    /\ file_idx = 0
    /\ issues = <<>>
    /\ suggestions = <<>>
    /\ analyzed = <<>>
    /\ clock = 0
    /\ timestamp = clock
    /\ earlier = <<>>
    /\ review_requests = 0
    /\ analyze_calls = 0
    /\ file_requests = 0
    /\ report = <<>>
    /\ report_file = <<>>
    /\ github_repository = "unread"
    /\ comment_posts = 0
    /\ comment_response = NoResponse
    /\ comment_result = "none"
    /\ exit_code = -1
    /\ commands = <<>>
    /\ model_idx = 0
    /\ requested = <<>>
    /\ responses = <<>>
    /\ ai_analysis = NoneResult
    /\ scan_content = NoContent
    /\ scan_issues = <<>>

\* the state when main calls generate_report
Init ==
    /\ pc = "ts_check"
    /\ AgentInit
    /\ json_error_is_request_exception \in BOOLEAN
    /\ IdleInit

\* line 295
TypescriptCheck ==
    /\ pc = "ts_check"
    /\ \E o \in TsOutcomes : ts_check' = RunTypescriptCheck(o)
    /\ pc' = "audit"
    /\ UNCHANGED <<agentVars, security_audit, changed_files, file_idx, issues,
                   suggestions, analyzed, review_requests, analyze_calls,
                   file_requests, mainVars, reviewVars,
                   scanVars, renderVars>>

\* line 296
SecurityAudit ==
    /\ pc = "audit"
    /\ \E o \in RunAuditOutcomes : security_audit' = RunSecurityAudit(o)
    /\ pc' = "changed"
    /\ UNCHANGED <<agentVars, ts_check, changed_files, file_idx, issues,
                   suggestions, analyzed, review_requests, analyze_calls,
                   file_requests, mainVars, reviewVars,
                   scanVars, renderVars>>

\* line 299, the commands listing at most `max` files
ResolveChangedFilesUpTo(max) ==
    /\ pc = "changed"
    /\ \E d \in DiffOutcomes(max), fa, fb \in ListingOutcomes(max) :
          changed_files' = GetChangedFiles(pr_number, d, fa, fb).files
    /\ file_idx' = 1
    /\ pc' = "files"
    /\ UNCHANGED <<agentVars, ts_check, security_audit, issues, suggestions,
                   analyzed, review_requests, analyze_calls, file_requests,
                   mainVars, reviewVars, scanVars, renderVars>>

ResolveChangedFiles == ResolveChangedFilesUpTo(MaxFiles)

\* mutant: the loop visits every changed file
LoopFilesUncapped == changed_files

\* the files the loop of line 305 visits
LoopFiles == Take(changed_files, AnalyzeCap)

\* one iteration of the loop of lines 305-307: analyze_file(file_path), for
\* a file among `files` and, when the review is called, an exchange with the
\* review service among `scripts`
AnalyzeFileFrom(files, scripts) ==
    /\ pc = "files"
    /\ file_idx <= Len(LoopFiles)
    /\ LET file_path == LoopFiles[file_idx] IN
       \E f \in files :
          IF ~f.exists \/ ~f.readable
          THEN /\ file_requests' = 0
               /\ UNCHANGED <<issues, suggestions, analyzed, review_requests>>
          ELSE \E script \in scripts \cup {<<>>} :
                 LET calls  == CallsReview(openai_api_key, f.content)
                     r      == TryModels(script, 1, json_error_is_request_exception)
                     ai     == IF calls THEN r.result ELSE NoneResult
                     static == StaticIssues(f.content, file_path)
                     merged == MergeFile(issues, suggestions, static, ai, file_path)
                 IN  /\ IF calls THEN script # <<>> /\ r.sent = Len(script)
                                 ELSE script = <<>>
                     /\ issues' = merged.issues
                     /\ suggestions' = merged.suggestions
                     /\ analyzed' = Append(analyzed, [file |-> file_path, content |-> f.content])
                     /\ review_requests' = review_requests + Len(script)
                     /\ file_requests' = Len(script)
    /\ analyze_calls' = analyze_calls + 1
    /\ file_idx' = file_idx + 1
    /\ UNCHANGED <<pc, agentVars, ts_check, security_audit, changed_files,
                   mainVars, reviewVars, scanVars, renderVars>>

AnalyzeFile == AnalyzeFileFrom(Files, RunScripts)

\* mutant: the report is stamped with the time of the rendering
GeneratedStampNow == clock

\* line 312: the time stamp the report prints
GeneratedStamp == timestamp

\* lines 309-362, and the uncaught exception that ends the process with
\* status 1 when the rendering raises
RenderReport ==
    /\ pc = "files"
    /\ file_idx > Len(LoopFiles)
    /\ IF RenderRaises(security_audit, issues)
       THEN /\ pc' = "crashed"
            /\ exit_code' = 1
            /\ UNCHANGED report
       ELSE /\ pc' = "write"
            /\ report' = <<Render(GeneratedStamp, ts_check, security_audit, changed_files,
                                  issues, suggestions)>>
            /\ UNCHANGED exit_code
    /\ UNCHANGED <<agentVars, reportVars, report_file, github_repository,
                   comment_posts, comment_response, comment_result, reviewVars,
                   scanVars, renderVars>>

\* lines 399-401
WriteReport ==
    /\ pc = "write"
    /\ report_file' = report
    /\ pc' = "comment"
    /\ UNCHANGED <<agentVars, reportVars, report, github_repository, comment_posts,
                   comment_response, comment_result, exit_code, reviewVars, scanVars, renderVars>>

\* lines 406-410
PublishComment ==
    /\ pc = "comment"
    /\ IF Truthy(pr_number)
       THEN IF Truthy(github_token)
            THEN \E repo \in {"None", "o/r"}, resp \in CommentResponses :
                   /\ github_repository' = repo
                   /\ IF SendsComment(github_token, pr_number, repo)
                      THEN comment_posts' = comment_posts + 1 /\ comment_response' = resp
                      ELSE UNCHANGED <<comment_posts, comment_response>>
                   /\ comment_result' =
                         IF PostPrComment(github_token, pr_number, repo, resp)
                         THEN "posted" ELSE "failed"
            ELSE /\ comment_result' = "failed"
                 /\ UNCHANGED <<github_repository, comment_posts, comment_response>>
       ELSE UNCHANGED <<github_repository, comment_posts, comment_response, comment_result>>
    /\ pc' = "exit"
    /\ UNCHANGED <<agentVars, reportVars, report, report_file, exit_code,
                   reviewVars, scanVars, renderVars>>

\* lines 417-422
Exit ==
    /\ pc = "exit"
    /\ exit_code' = ExitCode(issues)
    /\ pc' = "done"
    /\ UNCHANGED <<agentVars, reportVars, report, report_file, github_repository,
                   comment_posts, comment_response, comment_result, reviewVars,
                   scanVars, renderVars>>

Next ==
    \/ TypescriptCheck
    \/ SecurityAudit
    \/ ResolveChangedFiles
    \/ AnalyzeFile
    \/ RenderReport
    \/ WriteReport
    \/ PublishComment
    \/ Exit

Spec == Init /\ [][Next]_vars

(***************************************************************************)
(* analyze_code_with_ai alone, request by request (lines 85-166).          *)
(***************************************************************************)
InitReview ==
    /\ pc = "review_call"
    /\ openai_env \in OpenAiEnvs
    /\ openai_api_key = KeyOf(openai_env)
    /\ github_token = "None"
    /\ pr_number = "None"
    /\ json_error_is_request_exception \in BOOLEAN
    /\ IdleInit

\* lines 87-89 and the entry of the loop
CallReview ==
    /\ pc = "review_call"
    /\ IF ~Truthy(openai_api_key)
       THEN pc' = "review_returned" /\ UNCHANGED model_idx
       ELSE pc' = "review_loop" /\ model_idx' = 1
    /\ UNCHANGED <<agentVars, reportVars, mainVars, commands, requested,
                   responses, ai_analysis, scanVars, renderVars>>

\* one iteration of the loop: the POST for models_to_try[model_idx] and
\* what the code does with the answer
PostToModel ==
    /\ pc = "review_loop"
    /\ \E resp \in Responses :
          LET step == ReviewStep(resp, json_error_is_request_exception)
          IN  /\ requested' = Append(requested, models_to_try[model_idx])
              /\ responses' = Append(responses, resp)
              /\ IF step.ctl = "raise"
                 THEN pc' = "review_raised" /\ UNCHANGED <<model_idx, ai_analysis>>
                 ELSE IF step.ctl = "return"
                 THEN /\ pc' = "review_returned"
                      /\ ai_analysis' = step.value
                      /\ UNCHANGED model_idx
                 ELSE IF model_idx = Len(models_to_try)
                 THEN /\ pc' = "review_returned"
                      /\ UNCHANGED <<model_idx, ai_analysis>>
                 ELSE /\ model_idx' = model_idx + 1
                      /\ UNCHANGED <<pc, ai_analysis>>
    /\ review_requests' = review_requests + 1
    /\ UNCHANGED <<agentVars, ts_check, security_audit, changed_files, file_idx,
                   issues, suggestions, analyzed, analyze_calls, file_requests,
                   mainVars, commands, scanVars, renderVars>>

NextReview == CallReview \/ PostToModel

SpecReview == InitReview /\ [][NextReview]_vars

(***************************************************************************)
(* get_changed_files alone (lines 168-227).                                *)
(***************************************************************************)
MaxLines == 11

InitResolver ==
    /\ pc = "resolve_call"
    /\ openai_env = <<"None", "None", "None">>
    /\ openai_api_key = KeyOf(openai_env)
    /\ github_token = "None"
    /\ pr_number \in {"None", "", "7"}
    /\ json_error_is_request_exception = TRUE
    /\ IdleInit

CallGetChangedFiles ==
    /\ pc = "resolve_call"
    /\ \E d \in DiffOutcomes(MaxLines), fa, fb \in ListingOutcomes(MaxLines) :
          LET r == GetChangedFiles(pr_number, d, fa, fb)
          IN  changed_files' = r.files /\ commands' = r.commands
    /\ pc' = "resolve_returned"
    /\ UNCHANGED <<agentVars, ts_check, security_audit, file_idx, issues,
                   suggestions, analyzed, review_requests, analyze_calls,
                   file_requests, mainVars, model_idx,
                   requested, responses, ai_analysis, scanVars, renderVars>>

NextResolver == CallGetChangedFiles

SpecResolver == InitResolver /\ [][NextResolver]_vars

(***************************************************************************)
(* The static rules of analyze_file alone (lines 239-266).                 *)
(***************************************************************************)
MaxFrags == 2
MaxAny   == 7

Fragments ==
    {EvalCall, <<"e", "v", "a", "l">>, InnerHTML, Lower(InnerHTML), SanitizeLc,
     <<"S", "a", "n", "i", "t", "i", "z", "e">>,
     <<"S", "A", "N", "I", "T", "I", "Z", "E">>,
     AnyWord, <<"a", "n">>, <<"y">>}

ScanContents ==
    {[text |-> Concat(pre) \o Repeat(AnyWord \o <<" ">>, n), pad |-> 0] :
        pre \in SeqUpTo(Fragments, MaxFrags), n \in 0..MaxAny}

ScanPath == FileName(1)

InitScan ==
    /\ pc = "scan_call"
    /\ openai_env = <<"None", "None", "None">>
    /\ openai_api_key = KeyOf(openai_env)
    /\ github_token = "None"
    /\ pr_number = "None"
    /\ json_error_is_request_exception = TRUE
    /\ ts_check = RunTypescriptCheck(Raised)
    /\ security_audit = RunSecurityAudit(Raised)
    /\ changed_files = <<>>
    /\ file_idx = 0
    /\ issues = <<>>
    /\ suggestions = <<>>
    /\ analyzed = <<>>
    /\ clock = 0
    /\ timestamp = clock
    /\ earlier = <<>>
    /\ review_requests = 0
    /\ analyze_calls = 0
    /\ file_requests = 0
    /\ report = <<>>
    /\ report_file = <<>>
    /\ github_repository = "unread"
    /\ comment_posts = 0
    /\ comment_response = NoResponse
    /\ comment_result = "none"
    /\ exit_code = -1
    /\ commands = <<>>
    /\ model_idx = 0
    /\ requested = <<>>
    /\ responses = <<>>
    /\ ai_analysis = NoneResult
    /\ scan_content \in ScanContents
    /\ scan_issues = <<>>

ScanFile ==
    /\ pc = "scan_call"
    /\ scan_issues' = StaticIssues(scan_content, ScanPath)
    /\ pc' = "scan_returned"
    /\ UNCHANGED <<agentVars, reportVars, mainVars, reviewVars, scan_content,
                   renderVars>>

NextScan == ScanFile

SpecScan == InitScan /\ [][NextScan]_vars

(***************************************************************************)
(* The analysis loop of generate_report (lines 299-307) on change sets     *)
(* larger than the number of files it analyses.                            *)
(***************************************************************************)
MaxChanged == 12

AnalysisFiles == {File(FALSE, FALSE, <<>>, 0), File(TRUE, TRUE, CleanText, 0)}

\* exchanges that leave no finding: four refusals, an empty object at once,
\* and the answers the service would give to five requests
AnalysisScripts ==
    {Repeat(<<Http(404)>>, 4), <<NetError, Http(404), Http(500), NetError>>,
     <<Ok200("ok", <<"{", "}">>)>>, Repeat(<<Http(404)>>, 5)}

InitAnalysis ==
    /\ pc = "changed"
    /\ openai_env \in {<<"None", "None", "None">>, <<"None", "None", "sk">>}
    /\ openai_api_key = KeyOf(openai_env)
    /\ github_token = "None"
    /\ pr_number \in {"None", "7"}
    /\ json_error_is_request_exception = TRUE
    /\ IdleInit

ResolveManyChangedFiles == ResolveChangedFilesUpTo(MaxChanged)

AnalyzeNextFile == AnalyzeFileFrom(AnalysisFiles, AnalysisScripts)

NextAnalysis == ResolveManyChangedFiles \/ AnalyzeNextFile

SpecAnalysis == InitAnalysis /\ [][NextAnalysis]_vars

(***************************************************************************)
(* The rendering of generate_report (lines 309-362) invoked repeatedly,    *)
(* each time by an agent built when the clock reads some time and holding  *)
(* the results of its collection (lines 295-307).                          *)
(***************************************************************************)
MaxClock == 1

RenderTsOutcomes == {Raised, Exited(0, <<>>)}

RenderAuditOutcomes ==
    {Exited(0, <<"{", "}">>), Exited(1, <<"{", "v", "}">>), Exited(1, <<"{", "w", "}">>)}

\* the findings and suggestions collected from the first changed file
RenderIssues == {<<>>, <<EvalIssue(FileName(1))>>}

RenderSuggestions == {<<>>, <<FileName(1) \o <<":", " ">> \o <<"s">>>>}

InitRender ==
    /\ pc = "render_setup"
    /\ openai_env = <<"sk", "None", "None">>
    /\ openai_api_key = KeyOf(openai_env)
    /\ github_token = "None"
    /\ pr_number = "7"
    /\ json_error_is_request_exception = TRUE
    /\ IdleInit

\* time passes
Tick ==
    /\ pc \in {"render_setup", "render_call", "render_returned"}
    /\ clock < MaxClock
    /\ clock' = clock + 1
    /\ UNCHANGED <<pc, agentVars, reportVars, mainVars, reviewVars, scanVars,
                   earlier>>

\* CodeQualityAgent() at the time the clock reads (line 37) and what lines
\* 295-307 have collected when the rendering starts
Collect ==
    /\ pc \in {"render_setup", "render_returned"}
    /\ timestamp' = clock
    /\ \E o \in RenderTsOutcomes : ts_check' = RunTypescriptCheck(o)
    /\ \E o \in RenderAuditOutcomes : security_audit' = RunSecurityAudit(o)
    /\ \E n \in 1..2 :
          changed_files' = GetChangedFiles(pr_number, Exited(0, Listing(n)),
                                           Raised, Raised).files
    /\ issues' \in RenderIssues
    /\ suggestions' \in RenderSuggestions
    /\ pc' = "render_call"
    /\ UNCHANGED <<openai_env, openai_api_key, github_token, pr_number,
                   json_error_is_request_exception, file_idx, analyzed,
                   review_requests, analyze_calls, file_requests, mainVars,
                   reviewVars, scanVars, renderVars>>

\* lines 309-362
RenderCall ==
    /\ pc = "render_call"
    /\ IF RenderRaises(security_audit, issues)
       THEN /\ pc' = "render_raised"
            /\ UNCHANGED <<report, earlier>>
       ELSE LET text == Render(GeneratedStamp, ts_check, security_audit,
                               changed_files, issues, suggestions)
            IN  /\ pc' = "render_returned"
                /\ report' = <<text>>
                /\ earlier' =
                      IF earlier # <<>> THEN earlier
                      ELSE <<[timestamp |-> timestamp,
                              analyzed_files |-> Len(changed_files),
                              ts_check |-> ts_check,
                              security_audit |-> security_audit,
                              issues |-> issues,
                              suggestions |-> suggestions,
                              report |-> text]>>
    /\ UNCHANGED <<agentVars, reportVars, report_file, github_repository,
                   comment_posts, comment_response, comment_result, exit_code,
                   reviewVars, scanVars, clock>>

NextRender == Tick \/ Collect \/ RenderCall

SpecRender == InitRender /\ [][NextRender]_vars

(***************************************************************************)
(* Properties.                                                             *)
(***************************************************************************)
IsStatus(resp, status) == ~resp.raised /\ resp.status = status
IsOtherStatus(resp) == ~resp.raised /\ resp.status \notin {200, 404}
NotAvailable(resp) == resp.raised \/ IsStatus(resp, 404)

\* C1: a response with a status other than 200 and 404 ends the attempts for
\* the file: it is the last response of the call, no later model is
\* requested, and the call returns None.
C1_OtherStatusAborts ==
    \A i \in DOMAIN responses :
        IsOtherStatus(responses[i]) =>
            /\ i = Len(responses)
            /\ Len(requested) = i
            /\ (pc = "review_returned" => ai_analysis = NoneResult)

\* what the body of one 200 response yields on its own
FromBody(resp) ==
    IF resp.envelope = "ok" /\ ExtractReview(resp.content).ok
    THEN ExtractReview(resp.content).value
    ELSE NoneResult

\* C2: the models are requested in list order, the first 200 is the last
\* response of the call (no later model is requested), and the value
\* returned is derived from the body of that 200 alone.
C2_StopsAtFirst200 ==
    /\ \A i \in DOMAIN requested : requested[i] = models_to_try[i]
    /\ \A i \in DOMAIN responses :
          IsStatus(responses[i], 200) =>
              /\ i = Len(responses)
              /\ (pc = "review_returned" => ai_analysis = FromBody(responses[i]))

\* C3: a network failure on one model is followed by the request to the next
\* model of the list; when all four models end in a 404 or a network failure
\* the call returns None; no exception leaves the call.
C3_NetworkFailureTriesNext ==
    /\ pc # "review_raised"
    /\ \A i \in DOMAIN responses :
          (responses[i].raised /\ i < Len(models_to_try)) =>
              \/ i = Len(responses) /\ pc = "review_loop" /\ model_idx = i + 1
              \/ Len(requested) > i /\ requested[i + 1] = models_to_try[i + 1]
    /\ (/\ Len(responses) = Len(models_to_try)
        /\ \A i \in DOMAIN responses : NotAvailable(responses[i]))
       => (pc = "review_returned" /\ ai_analysis = NoneResult)

C3_Witness ==
    /\ pc = "review_returned"
    /\ Len(responses) = 4
    /\ responses[1].raised
    /\ IsStatus(responses[2], 404)
    /\ responses[3].raised
    /\ \A i \in DOMAIN responses : NotAvailable(responses[i])
    /\ requested = models_to_try
    /\ ai_analysis = NoneResult

Ended == pc \in {"done", "crashed"}

\* C4: when the run has ended, the exit status is non-zero exactly when a
\* recorded finding has severity 'high'.
C4_ExitCodeIffHigh ==
    Ended => ((exit_code # 0) <=> (\E i \in DOMAIN issues : IsHigh(issues[i])))

\* positions where sub occurs in t, and where it occurs in any letter case
Occ(sub, t) ==
    {i \in 1..Len(t) : /\ i + Len(sub) - 1 <= Len(t)
                       /\ \A k \in 1..Len(sub) : t[i + k - 1] = sub[k]}
OccAnyCase(sub, t) ==
    {i \in 1..Len(t) : /\ i + Len(sub) - 1 <= Len(t)
                       /\ \A k \in 1..Len(sub) : LowerChar(t[i + k - 1]) = sub[k]}

Times(issue, found) == Cardinality({i \in DOMAIN found : found[i] = issue})

\* C5: the static findings of a file are the outputs of three independent
\* rules: one high security finding iff the text holds 'eval(', one medium
\* security finding iff it holds 'innerHTML' and 'sanitize' in no letter
\* case, one medium quality finding iff 'any' occurs more than five times;
\* and there is no other finding.
C5_StaticRules ==
    pc = "scan_returned" =>
        LET t  == scan_content.text
            n1 == IF Occ(EvalCall, t) # {} THEN 1 ELSE 0
            n2 == IF Occ(InnerHTML, t) # {} /\ OccAnyCase(SanitizeLc, t) = {}
                  THEN 1 ELSE 0
            n3 == IF Cardinality(Occ(AnyWord, t)) > 5 THEN 1 ELSE 0
        IN  /\ Times(EvalIssue(ScanPath), scan_issues) = n1
            /\ Times(InnerHtmlIssue(ScanPath), scan_issues) = n2
            /\ Times(AnyIssue(ScanPath), scan_issues) = n3
            /\ Len(scan_issues) = n1 + n2 + n3
            /\ EvalIssue(ScanPath).severity = JStr("high")
            /\ InnerHtmlIssue(ScanPath).severity = JStr("medium")
            /\ AnyIssue(ScanPath).severity = JStr("medium")

C5_Witness ==
    /\ pc = "scan_returned"
    /\ Len(scan_issues) = 3
    /\ Cardinality(Occ(AnyWord, scan_content.text)) = 6

LastCommand == commands[Len(commands)]

\* C6 as stated: whenever a command get_changed_files launched has failed,
\* the list returned is empty.
C6_EmptyOnAnyFailure ==
    pc = "resolve_returned" =>
        ((\E i \in DOMAIN commands : Failed(commands[i])) => changed_files = <<>>)

\* C6 amended: the list returned is empty whenever the last command launched
\* has failed; a failed diff is followed by the fallback scan, and when that
\* scan succeeds its first five names are returned.
C6_EmptyWhenLastCommandFailed ==
    pc = "resolve_returned" =>
        /\ Failed(LastCommand) => changed_files = <<>>
        /\ Failed(commands[1]) =>
              /\ Len(commands) = 2
              /\ commands[2].cmd = "find_fallback"
              /\ ~Failed(commands[2]) =>
                    Len(changed_files) =
                        IF commands[2].names < 5 THEN commands[2].names ELSE 5

C6_Witness ==
    /\ pc = "resolve_returned"
    /\ commands[1].cmd = "diff"
    /\ commands[1].raised
    /\ ~Failed(LastCommand)
    /\ Len(changed_files) = 5

\* C7 as stated: the list returned holds at most 10 files, whether it comes
\* from the diff or from a directory scan.
C7_AtMostTenFiles ==
    pc = "resolve_returned" => Len(changed_files) <= 10

\* C7 amended: a list that comes from a directory scan holds at most 10
\* files (at most 5 from the fallback scan).
C7_ScansAreCapped ==
    pc = "resolve_returned" =>
        /\ LastCommand.cmd = "find_all" => Len(changed_files) <= 10
        /\ LastCommand.cmd = "find_fallback" => Len(changed_files) <= 5

C7_Witness ==
    /\ pc = "resolve_returned"
    /\ LastCommand.cmd = "find_all"
    /\ LastCommand.names > 10
    /\ Len(changed_files) = 10

\* the static findings of the files read so far, in order
RECURSIVE StaticOf(_)
StaticOf(read) ==
    IF read = <<>> THEN <<>>
    ELSE StaticIssues(Head(read).content, Head(read).file) \o StaticOf(Tail(read))

\* C8: with none of the three credential variables set, no request goes to
\* the review service, the findings are those of the static rules, there is
\* no suggestion, and a run without findings ends with exit status 0.
C8_NoCredentialNoReview ==
    openai_env = <<"None", "None", "None">> =>
        /\ review_requests = 0
        /\ suggestions = <<>>
        /\ issues = StaticOf(analyzed)
        /\ (Ended /\ issues = <<>>) => exit_code = 0

\* C9: the comment POST is issued at most once, after the report file is
\* written, and only with a repository, a pull-request number and a token;
\* post_pr_comment reports success exactly on a 201 response; a failure to
\* post neither ends the run nor changes the exit status.
C9_CommentAfterReport ==
    /\ comment_posts <= 1
    /\ comment_posts = 1 =>
          /\ report_file # <<>>
          /\ report_file = report
          /\ Truthy(github_token)
          /\ Truthy(pr_number)
          /\ github_repository \notin {"unread", "None", ""}
    /\ comment_result # "none" => report_file # <<>>
    /\ comment_result = "posted" <=>
          (comment_posts = 1 /\ IsStatus(comment_response, 201))
    /\ comment_result = "failed" => pc \in {"exit", "done"}
    /\ pc = "done" => exit_code = ExitCode(issues)

C9_Witness ==
    /\ pc = "done"
    /\ comment_posts = 1
    /\ IsStatus(comment_response, 403)
    /\ comment_result = "failed"
    /\ exit_code = 0

\* C10: malformed data from the review service or the audit tool never ends
\* the run: generate_report returns and main writes the report file.
C10_MalformedDataAbsorbed ==
    /\ pc # "crashed"
    /\ pc \in {"comment", "exit", "done"} => report_file # <<>>

\* C11: analyze_file is called for at most 10 files whatever the size of
\* the change set, each call sends at most 4 requests to the review service,
\* and a run sends at most 40.
C11_AnalysisIsCapped ==
    /\ analyze_calls <= AnalyzeCap
    /\ analyze_calls <= Len(changed_files)
    /\ Len(analyzed) <= analyze_calls
    /\ file_requests <= Len(models_to_try)
    /\ review_requests <= analyze_calls * Len(models_to_try)
    /\ review_requests <= 40

C11_Witness ==
    /\ Len(changed_files) > AnalyzeCap
    /\ file_idx > Len(LoopFiles)
    /\ analyze_calls = AnalyzeCap
    /\ file_requests = Len(models_to_try)
    /\ review_requests = 40

\* the latest rendering had the tool results, findings and suggestions of
\* the earlier one
SameResults ==
    /\ pc = "render_returned"
    /\ earlier # <<>>
    /\ ts_check = earlier[1].ts_check
    /\ security_audit = earlier[1].security_audit
    /\ issues = earlier[1].issues
    /\ suggestions = earlier[1].suggestions

\* C12 as stated: two renderings with identical tool results, findings and
\* suggestions give the same report text.
C12_SameResultsSameReport ==
    SameResults => report = <<earlier[1].report>>

\* C12 amended: two renderings with identical time stamp of the agent,
\* number of changed files, tool results, findings and suggestions give the
\* same report text, whenever they are made.
C12_SameInputsSameReport ==
    (/\ SameResults
     /\ timestamp = earlier[1].timestamp
     /\ Len(changed_files) = earlier[1].analyzed_files)
        => report = <<earlier[1].report>>

\* a second rendering, made later than the first from the same inputs
C12_Witness ==
    /\ SameResults
    /\ timestamp = earlier[1].timestamp
    /\ Len(changed_files) = earlier[1].analyzed_files
    /\ clock > timestamp
    /\ issues # <<>>
    /\ report = <<earlier[1].report>>

\* every static finding of every file read so far is in the findings of the run
StaticFindingsRecorded ==
    \A k \in DOMAIN analyzed :
        LET static == StaticIssues(analyzed[k].content, analyzed[k].file)
        IN  \A j \in DOMAIN static : \E i \in DOMAIN issues : issues[i] = static[j]

\* a file read so far holds 'eval('
ReadEval ==
    \E k \in DOMAIN analyzed :
        EvalIssue(analyzed[k].file) \in
            {StaticIssues(analyzed[k].content, analyzed[k].file)[j] :
                j \in DOMAIN StaticIssues(analyzed[k].content, analyzed[k].file)}

\* C13: the static findings of every file analyze_file reads are in the
\* findings of the run whatever the review of the file returned, a file
\* with 'eval(' makes the run end with exit status 1, and the findings
\* already recorded stay where they are.
C13_StaticFindingsKept ==
    /\ [](StaticFindingsRecorded /\ ((Ended /\ ReadEval) => exit_code = 1))
    /\ [][Len(issues) <= Len(issues') /\ SubSeq(issues', 1, Len(issues)) = issues]_vars

====
